---- MODULE Spec2Model ----
(***************************************************************************)
(* Model of the Elo rating tool of src/src/main.rs: the bracket resolver,  *)
(* the rating update, the fold of a match list over a standings table and  *)
(* the main pipeline (parse three files, fold, unwrap, write the output).  *)
(*                                                                         *)
(* f32 values are modelled as fixed-point integers in units of 1/Scale,    *)
(* every arithmetic operation rounding to the nearest unit, as every f32   *)
(* operation rounds to the nearest representable value.  powf(10, x) is    *)
(* modelled by a table of 10^(j/8) with linear interpolation; it is exact  *)
(* at x = 0, so equal ratings give the probability 1/2 exactly, as in f32. *)
(***************************************************************************)
EXTENDS Integers, Sequences, FiniteSets, TLC

VARIABLES pc, diag, standings, results, config, acc, standing, idx, outfile,
          rpc, rating, k_brackets, k_perm, k_result, k_result_perm

mainVars == <<pc, diag, standings, results, config, acc, standing, idx, outfile>>
resolveVars == <<rpc, rating, k_brackets, k_perm, k_result, k_result_perm>>
vars == <<pc, diag, standings, results, config, acc, standing, idx, outfile,
          rpc, rating, k_brackets, k_perm, k_result, k_result_perm>>

(* ------------------------------ bounds -------------------------------- *)
MaxMatches == 2
MaxBrackets == 2

(* ------------------------- f32 as fixed point ------------------------- *)
Scale == 10000
RatingDivisor == 400

F(n) == n * Scale

\* a / b rounded to the nearest integer (b > 0)
RoundDiv(a, b) == (2 * a + b) \div (2 * b)

Range(s) == {s[i] : i \in 1..Len(s)}

(* Option<T> *)
None == [tag |-> "None"]
Some(v) == [tag |-> "Some", val |-> v]
IsSome(o) == o.tag = "Some"

(* 10^(j/8) for j = 0..8, in units of 1/Scale *)
Pow10Table == <<10000, 13335, 17783, 23714, 31623, 42170, 56234, 74989, 100000>>

RECURSIVE IntPow10(_)
IntPow10(n) == IF n = 0 THEN 1 ELSE 10 * IntPow10(n - 1)

\* f32::powf(10f32, x), x and the result in units of 1/Scale
powf10(x) ==
    LET q == x \div Scale
        f == x % Scale
        step == Scale \div 8
        j == f \div step
        r == f % step
        base == Pow10Table[j + 1]
                  + RoundDiv((Pow10Table[j + 2] - Pow10Table[j + 1]) * r, step)
    IN IF q >= 0 THEN base * IntPow10(q) ELSE RoundDiv(base, IntPow10(0 - q))

(* ----------------------------- the engine ----------------------------- *)
SeriesKind == {"Bo1", "Bo3", "Bo5"}

get_series_win_weight_from_config(configuration, series) ==
    CASE series = "Bo1" -> configuration.bo1_score
      [] series = "Bo3" -> configuration.bo3_score
      [] series = "Bo5" -> configuration.bo5_score

get_expected_probabilities(rating1, rating2) ==
    LET p1 == RoundDiv(Scale * Scale,
                       Scale + powf10(RoundDiv(rating2 - rating1, RatingDivisor)))
        p2 == RoundDiv(Scale * Scale,
                       Scale + powf10(RoundDiv(rating1 - rating2, RatingDivisor)))
    IN <<p1, p2>>

\* Vec::sort_by_key(|bracket| bracket.start): a stable sort, here by insertion
RECURSIVE InsertByStart(_, _)
InsertByStart(b, s) ==
    IF s = <<>> THEN <<b>>
    ELSE IF b.start < Head(s).start THEN <<b>> \o s
    ELSE <<Head(s)>> \o InsertByStart(b, Tail(s))

RECURSIVE sort_by_key(_)
sort_by_key(s) ==
    IF s = <<>> THEN <<>>
    ELSE InsertByStart(s[Len(s)], sort_by_key(SubSeq(s, 1, Len(s) - 1)))

\* the for loop of scaling_for_rating: the first bracket the rating reaches
RECURSIVE FirstReached(_, _)
FirstReached(r, s) ==
    IF s = <<>> THEN None
    ELSE IF r >= F(Head(s).start) THEN Some(Head(s).k)
    ELSE FirstReached(r, Tail(s))

scaling_for_rating_unsorted(r, brackets) == FirstReached(r, brackets)

scaling_for_rating(r, brackets) == FirstReached(r, sort_by_key(brackets))

combine_ratings(rating1, rating2) == (rating1 + rating2) \div 2

scaling_for_rating_difference(rating1, rating2, brackets) ==
    scaling_for_rating(combine_ratings(rating1, rating2), brackets)

adjust_ratings_swapped(rating1, rating2, k, actual_score1, actual_score2) ==
    LET p == get_expected_probabilities(rating1, rating2)
    IN <<rating1 + k * (actual_score1 - p[2]), rating2 + k * (actual_score2 - p[1])>>

\* k is a whole number in every bracket the model draws, so k * x is exact
adjust_ratings(rating1, rating2, k, actual_score1, actual_score2) ==
    LET expected_probabilities == get_expected_probabilities(rating1, rating2)
        new_rating1 == rating1 + k * (actual_score1 - expected_probabilities[1])
        new_rating2 == rating2 + k * (actual_score2 - expected_probabilities[2])
    IN <<new_rating1, new_rating2>>

\* HashMap::insert
insert(table, key, value) ==
    [x \in (DOMAIN table) \cup {key} |-> IF x = key THEN value ELSE table[x]]

(* variants of apply_match_result with one plausible slip each *)
apply_match_result_default_loser(result, st, conf, kb) ==
    IF result.winner \notin DOMAIN st THEN None
    ELSE LET winner_rating == st[result.winner]
             loser_rating == IF result.loser \in DOMAIN st THEN st[result.loser] ELSE 0
             k == scaling_for_rating_difference(winner_rating, loser_rating, kb)
         IN IF ~IsSome(k) THEN None
            ELSE LET new_ratings == adjust_ratings(winner_rating, loser_rating, k.val,
                                      get_series_win_weight_from_config(conf, result.series), 0)
                 IN Some(insert(insert(st, result.winner, new_ratings[1]),
                                result.loser, new_ratings[2]))

apply_match_result_fresh_table(result, st, conf, kb) ==
    IF result.winner \notin DOMAIN st \/ result.loser \notin DOMAIN st THEN None
    ELSE LET winner_rating == st[result.winner]
             loser_rating == st[result.loser]
             k == scaling_for_rating_difference(winner_rating, loser_rating, kb)
         IN IF ~IsSome(k) THEN None
            ELSE LET new_ratings == adjust_ratings(winner_rating, loser_rating, k.val,
                                      get_series_win_weight_from_config(conf, result.series), 0)
                 IN Some(insert(insert([x \in {} |-> 0], result.winner, new_ratings[1]),
                                result.loser, new_ratings[2]))

apply_match_result_loser_first(result, st, conf, kb) ==
    IF result.winner \notin DOMAIN st \/ result.loser \notin DOMAIN st THEN None
    ELSE LET winner_rating == st[result.winner]
             loser_rating == st[result.loser]
             k == scaling_for_rating_difference(winner_rating, loser_rating, kb)
         IN IF ~IsSome(k) THEN None
            ELSE LET new_ratings == adjust_ratings(winner_rating, loser_rating, k.val,
                                      get_series_win_weight_from_config(conf, result.series), 0)
                 IN Some(insert(insert(st, result.loser, new_ratings[2]),
                                result.winner, new_ratings[1]))

\* st: the standings argument, conf: the configuration the series_win_weight
\* closure captured, kb: the k_brackets argument
apply_match_result(result, st, conf, kb) ==
    IF result.winner \notin DOMAIN st THEN None
    ELSE IF result.loser \notin DOMAIN st THEN None
    ELSE LET winner_rating == st[result.winner]
             loser_rating == st[result.loser]
             k == scaling_for_rating_difference(winner_rating, loser_rating, kb)
         IN IF ~IsSome(k) THEN None
            ELSE LET new_ratings == adjust_ratings(winner_rating, loser_rating, k.val,
                                      get_series_win_weight_from_config(conf, result.series), 0)
                     new_standings == insert(insert(st, result.winner, new_ratings[1]),
                                             result.loser, new_ratings[2])
                 IN Some(new_standings)

fold_closure_skip(a, result) ==
    IF IsSome(a)
    THEN LET r == apply_match_result(result, a.val, config, config.k_brackets)
         IN IF IsSome(r) THEN r ELSE a
    ELSE None

fold_closure_original(a, result) ==
    IF IsSome(a)
    THEN apply_match_result(result, standings, config, config.k_brackets)
    ELSE None

\* the closure that apply_match_results folds with
fold_closure(a, result) ==
    IF IsSome(a)
    THEN apply_match_result(result, a.val, config, config.k_brackets)
    ELSE None

\* apply_match_results as a function: Iterator::fold from the left
RECURSIVE FoldLeft(_, _, _, _)
FoldLeft(a, ms, conf, kb) ==
    IF ms = <<>> THEN a
    ELSE FoldLeft(IF IsSome(a) THEN apply_match_result(Head(ms), a.val, conf, kb) ELSE None,
                  Tail(ms), conf, kb)

apply_match_results(ms, st, kb, conf) == FoldLeft(Some(st), ms, conf, kb)

(* ------------------------------ inputs -------------------------------- *)
Names == {"A", "B", "C"}
Ratings == {F(0 - 100), F(400), F(1700)}

\* standings files: every entity of Names rated; "D" is in no table
StandingsInputs == [Names -> Ratings]

MatchInputs ==
    { [winner |-> "A", loser |-> "B", series |-> "Bo1"],
      [winner |-> "B", loser |-> "C", series |-> "Bo1"],
      [winner |-> "B", loser |-> "A", series |-> "Bo3"],
      [winner |-> "C", loser |-> "A", series |-> "Bo5"],
      [winner |-> "C", loser |-> "B", series |-> "Bo3"],
      [winner |-> "A", loser |-> "A", series |-> "Bo3"],
      [winner |-> "A", loser |-> "D", series |-> "Bo1"],
      [winner |-> "A", loser |-> "C", series |-> "Bo5"],
      [winner |-> "D", loser |-> "C", series |-> "Bo5"],
      [winner |-> "D", loser |-> "D", series |-> "Bo3"] }

SeqsUpTo(S, n) == UNION {[1..m -> S] : m \in 0..n}

ResultsInputs == SeqsUpTo(MatchInputs, MaxMatches)

LowBracket == [start |-> 0, k |-> 32]
HighBracket == [start |-> 1000, k |-> 16]

ConfigInputs ==
    { [bo1_score |-> F(1), bo3_score |-> F(1) + F(1) \div 4, bo5_score |-> F(1) + F(1) \div 2,
       k_brackets |-> kb] : kb \in {<<HighBracket, LowBracket>>, <<HighBracket>>} }

EmptyTable == [x \in {} |-> 0]
NoConfig == [bo1_score |-> 0, bo3_score |-> 0, bo5_score |-> 0, k_brackets |-> <<>>]

(* --------------------------- main pipeline ---------------------------- *)
IdleResolve ==
    /\ rpc = "idle" /\ rating = 0 /\ k_brackets = <<>> /\ k_perm = <<>>
    /\ k_result = None /\ k_result_perm = None

Init ==
    /\ pc = "parse_standings"
    /\ diag = ""
    /\ standings = EmptyTable
    /\ results = <<>>
    /\ config = NoConfig
    /\ acc = None
    /\ standing = None
    /\ idx = 0
    /\ outfile = "absent"
    /\ IdleResolve

Panic(message) ==
    /\ pc' = "panic"
    /\ diag' = message

\* main, lines 196-199
ParseStandings ==
    /\ pc = "parse_standings"
    /\ \/ /\ \E t \in StandingsInputs : standings' = t
          /\ pc' = "parse_match_results"
          /\ UNCHANGED diag
       \/ /\ Panic("Problem reading standings")
          /\ UNCHANGED standings
    /\ UNCHANGED <<results, config, acc, standing, idx, outfile>>
    /\ UNCHANGED resolveVars

\* main, lines 201-204
ParseMatchResults ==
    /\ pc = "parse_match_results"
    /\ \/ /\ \E ms \in ResultsInputs : results' = ms
          /\ pc' = "parse_config"
          /\ UNCHANGED diag
       \/ /\ Panic("Problem reading match results")
          /\ UNCHANGED results
    /\ UNCHANGED <<standings, config, acc, standing, idx, outfile>>
    /\ UNCHANGED resolveVars

\* main, lines 206-211
ParseConfig ==
    /\ pc = "parse_config"
    /\ \/ /\ \E c \in ConfigInputs : config' = c
          /\ pc' = "apply_match_results"
          /\ UNCHANGED diag
       \/ /\ Panic("Problem reading config results")
          /\ UNCHANGED config
    /\ UNCHANGED <<standings, results, acc, standing, idx, outfile>>
    /\ UNCHANGED resolveVars

\* apply_match_results: the fold's initial accumulator, Some(standings.clone())
BeginFold ==
    /\ pc = "apply_match_results"
    /\ acc' = Some(standings)
    /\ standing' = None
    /\ idx' = 0
    /\ pc' = "fold"
    /\ UNCHANGED <<diag, standings, results, config, outfile>>
    /\ UNCHANGED resolveVars

FoldStepFromRight ==
    /\ pc = "fold"
    /\ idx < Len(results)
    /\ standing' = acc
    /\ acc' = fold_closure(acc, results[Len(results) - idx])
    /\ idx' = idx + 1
    /\ UNCHANGED <<pc, diag, standings, results, config, outfile>>
    /\ UNCHANGED resolveVars

\* one iteration of the fold: the closure on the accumulator and the next match
FoldStep ==
    /\ pc = "fold"
    /\ idx < Len(results)
    /\ standing' = acc
    /\ acc' = fold_closure(acc, results[idx + 1])
    /\ idx' = idx + 1
    /\ UNCHANGED <<pc, diag, standings, results, config, outfile>>
    /\ UNCHANGED resolveVars

\* main, line 213: .unwrap() on the fold's result, before the write is called
Unwrap ==
    /\ pc = "fold"
    /\ idx = Len(results)
    /\ \/ /\ IsSome(acc)
          /\ pc' = "write_standings"
          /\ UNCHANGED diag
       \/ /\ ~IsSome(acc)
          /\ Panic("called Option::unwrap() on a None value")
    /\ UNCHANGED <<standings, results, config, acc, standing, idx, outfile>>
    /\ UNCHANGED resolveVars

\* write_standings_to_path and main's match on its result: File::create may
\* fail (nothing is created); once it succeeded the file exists, truncated,
\* and write_all may still fail
WriteStandings ==
    /\ pc = "write_standings"
    /\ \/ /\ Panic("Problem writing standings")
          /\ UNCHANGED outfile
       \/ /\ outfile' = "created"
          /\ Panic("Problem writing standings")
       \/ /\ outfile' = "written"
          /\ pc' = "done"
          /\ UNCHANGED diag
    /\ UNCHANGED <<standings, results, config, acc, standing, idx>>
    /\ UNCHANGED resolveVars

Next ==
    \/ ParseStandings
    \/ ParseMatchResults
    \/ ParseConfig
    \/ BeginFold
    \/ FoldStep
    \/ Unwrap
    \/ WriteStandings

Spec == Init /\ [][Next]_vars

(* ------------------- the bracket resolver on its own ------------------- *)
BracketInputs == [start : {0, 1000, 1500}, k : {5, 10}]
BracketLists == SeqsUpTo(BracketInputs, MaxBrackets)
RatingInputs == {F(0 - 5), F(0), F(1200), F(1500), F(1600)}

\* the orderings of the same brackets
Perms(s) ==
    { t \in [1..Len(s) -> Range(s)] :
        \A e \in Range(s) : Cardinality({i \in 1..Len(s) : t[i] = e})
                              = Cardinality({i \in 1..Len(s) : s[i] = e}) }

IdleMain ==
    /\ pc = "idle" /\ diag = "" /\ standings = EmptyTable /\ results = <<>>
    /\ config = NoConfig /\ acc = None /\ standing = None /\ idx = 0
    /\ outfile = "absent"

InitResolve ==
    /\ IdleMain
    /\ rpc = "call"
    /\ rating \in RatingInputs
    /\ k_brackets \in BracketLists
    /\ k_perm \in Perms(k_brackets)
    /\ k_result = None
    /\ k_result_perm = None

\* scaling_for_rating called on the configured list and on a reordering of it
Resolve ==
    /\ rpc = "call"
    /\ k_result' = scaling_for_rating(rating, k_brackets)
    /\ k_result_perm' = scaling_for_rating(rating, k_perm)
    /\ rpc' = "ret"
    /\ UNCHANGED <<rating, k_brackets, k_perm>>
    /\ UNCHANGED mainVars

NextResolve == Resolve

SpecResolve == InitResolve /\ [][NextResolve]_vars

(* ------------------------------ claims -------------------------------- *)
DistinctStarts(s) ==
    \A i, j \in 1..Len(s) : i # j => s[i].start # s[j].start

\* the k of the bracket with the highest start that is <= r
HighestReached(r, s) ==
    LET reached == {i \in 1..Len(s) : F(s[i].start) <= r}
    IN IF reached = {} THEN None
       ELSE Some(s[CHOOSE i \in reached :
                     \A j \in reached : s[j].start <= s[i].start].k)

\* C1: for brackets with distinct starts, scaling_for_rating returns the k of
\* the bracket with the highest start that is still <= rating.
C1_HighestSatisfiedBracket ==
    (rpc = "ret" /\ DistinctStarts(k_brackets))
        => k_result = HighestReached(rating, k_brackets)

\* C9: for brackets with distinct starts, scaling_for_rating returns the same
\* result for every ordering of the bracket list.
C9_OrderIndependent ==
    (rpc = "ret" /\ DistinctStarts(k_brackets)) => k_result = k_result_perm

C9_Witness ==
    /\ rpc = "ret"
    /\ DistinctStarts(k_brackets)
    /\ Len(k_brackets) >= 2
    /\ k_perm # k_brackets
    /\ IsSome(k_result)
    /\ k_brackets[1].start > k_brackets[2].start
    /\ rating >= F(k_brackets[1].start)

FoldStarted == IsSome(acc) \/ idx > 0

\* a fold step ran the update on a table: standing is that table, results[idx]
\* the match, acc the outcome
Stepped == idx > 0 /\ IsSome(standing)

\* m1..mn applied one inside the other, from the initial table
RECURSIVE NestedApply(_)
NestedApply(n) ==
    IF n = 0 THEN Some(standings)
    ELSE LET r == NestedApply(n - 1)
         IN IF IsSome(r)
            THEN apply_match_result(results[n], r.val, config, config.k_brackets)
            ELSE None

SkipsAt(i) ==
    /\ IsSome(NestedApply(i - 1))
    /\ ~IsSome(apply_match_result(results[i], NestedApply(i - 1).val,
                                  config, config.k_brackets))

C2_AbortState ==
    (FoldStarted /\ \E i \in 1..idx : SkipsAt(i))
        => /\ acc = None
           /\ outfile = "absent"
           /\ pc \in {"fold", "panic"}

\* C2: once a match of the list Skips, the fold's result is None whatever
\* precedes or follows it, nothing is written, and the initial table is not
\* changed by the fold.
C2_AllOrNothing ==
    /\ []C2_AbortState
    /\ [][pc = "fold" => standings' = standings]_vars

C2_Witness ==
    /\ idx = 2
    /\ ~SkipsAt(1)
    /\ SkipsAt(2)
    /\ standing # Some(standings)
    /\ pc = "panic"

\* C3: after n steps the accumulator is apply_match_result(mn, ...
\* apply_match_result(m1, initialTable)); for the empty list it is the initial
\* table.
C3_LeftFold ==
    FoldStarted => /\ acc = NestedApply(idx)
                   /\ (Len(results) = 0 => acc = Some(standings))

C3_Witness ==
    /\ idx = 2
    /\ Len(results) = 2
    /\ IsSome(acc)
    /\ acc # apply_match_result(results[2], standings, config, config.k_brackets)
    /\ standing # Some(standings)

Weight(series) ==
    IF series = "Bo1" THEN config.bo1_score
    ELSE IF series = "Bo3" THEN config.bo3_score
    ELSE config.bo5_score

\* both ratings of the last step as the claim's formula gives them
FormulaHolds ==
    LET m == results[idx]
        st == standing.val
        rw == st[m.winner]
        rl == st[m.loser]
        p == get_expected_probabilities(rw, rl)
        k == scaling_for_rating((rw + rl) \div 2, config.k_brackets)
    IN /\ IsSome(k)
       /\ acc.val[m.winner] = rw + k.val * (Weight(m.series) - p[1])
       /\ acc.val[m.loser] = rl + k.val * (0 - p[2])

\* C4 as stated: whenever apply_match_result succeeds, the winner's entry and
\* the loser's entry hold the formula's ratings.
C4_UpdateFormula_AnyMatch ==
    (Stepped /\ IsSome(acc)) => FormulaHolds

\* C4 as amended: the same, for a match whose winner and loser are distinct
\* entities; and 1000 vs 1000 with k = 20 and weight 1 gives 1010 and 990.
C4_UpdateFormula ==
    /\ (Stepped /\ IsSome(acc) /\ results[idx].winner # results[idx].loser)
          => FormulaHolds
    /\ adjust_ratings(F(1000), F(1000), 20, F(1), 0) = <<F(1010), F(990)>>

C4_Witness ==
    /\ Stepped
    /\ IsSome(acc)
    /\ results[idx].winner # results[idx].loser
    /\ results[idx].series = "Bo5"
    /\ standing.val[results[idx].winner] < standing.val[results[idx].loser]

\* C5: in every run that ends in a failure the output file has not been
\* created or written.
C5_NoOutputOnFailure ==
    pc = "panic" => outfile = "absent"

\* the forward list is [A beats B, B beats C] for three distinct rated entities
Chain ==
    /\ Len(results) = 2
    /\ idx = 2
    /\ results[1].loser = results[2].winner
    /\ Cardinality({results[1].winner, results[1].loser, results[2].loser}) = 3
    /\ {results[1].winner, results[1].loser, results[2].loser} \subseteq DOMAIN standings

Reversed ==
    apply_match_results(<<results[2], results[1]>>, standings, config.k_brackets, config)

ChangeReachesSecondStep ==
    LET ab == results[1]
        bc == results[2]
        kb == config.k_brackets
        afterAB == apply_match_result(ab, standings, config, kb)
        afterBC == apply_match_result(bc, standings, config, kb)
    IN \/ apply_match_result(bc, afterAB.val, config, kb).val[bc.loser]
            # afterBC.val[bc.loser]
       \/ apply_match_result(ab, afterBC.val, config, kb).val[ab.winner]
            # afterAB.val[ab.winner]

NoBracketFor(rw, rl) ==
    \A b \in Range(config.k_brackets) : 2 * F(b.start) > rw + rl

SkipCondition ==
    LET m == results[idx]
        st == standing.val
    IN \/ m.winner \notin DOMAIN st
       \/ m.loser \notin DOMAIN st
       \/ NoBracketFor(st[m.winner], st[m.loser])

\* C7: apply_match_result signals Skip exactly when the winner or the loser is
\* absent from the table or no bracket has start <= the mean of the two
\* ratings; otherwise it returns a table.
C7_SkipIff ==
    Stepped => /\ (acc = None <=> SkipCondition)
               /\ (~SkipCondition => IsSome(acc))

C7_Witness ==
    /\ Stepped
    /\ acc = None
    /\ results[idx].winner \in DOMAIN standing.val
    /\ results[idx].loser \in DOMAIN standing.val
    /\ config.k_brackets # <<>>
    /\ standing.val[results[idx].winner] + standing.val[results[idx].loser] >= 0

\* C8: a successful apply_match_result keeps the key set and every entry other
\* than the winner's and the loser's; so the entities stay those of the initial
\* table.
C8_Frame ==
    (Stepped /\ IsSome(acc))
        => /\ DOMAIN acc.val = DOMAIN standing.val
           /\ \A e \in DOMAIN standing.val :
                 e \notin {results[idx].winner, results[idx].loser}
                    => acc.val[e] = standing.val[e]
           /\ DOMAIN acc.val = DOMAIN standings

C8_Witness ==
    /\ Stepped
    /\ IsSome(acc)
    /\ idx = 2
    /\ acc # standing
    /\ \E e \in DOMAIN standing.val :
          e \notin {results[idx].winner, results[idx].loser}

\* C10: a match of an entity against itself, the entity rated and a bracket
\* resolvable, does not Skip; the entry ends with rating + k*(0 - 1/2) and every
\* other entry is unchanged.
C10_SelfMatch ==
    (/\ Stepped
     /\ results[idx].winner = results[idx].loser
     /\ results[idx].winner \in DOMAIN standing.val
     /\ ~NoBracketFor(standing.val[results[idx].winner],
                      standing.val[results[idx].winner]))
        => LET e == results[idx].winner
               r == standing.val[e]
               k == scaling_for_rating(r, config.k_brackets)
           IN /\ IsSome(acc)
              /\ IsSome(k)
              /\ acc.val[e] = r + k.val * (0 - (Scale \div 2))
              /\ \A x \in DOMAIN standing.val : x # e => acc.val[x] = standing.val[x]
              /\ DOMAIN acc.val = DOMAIN standing.val

C10_Witness ==
    /\ Stepped
    /\ results[idx].winner = results[idx].loser
    /\ IsSome(acc)
    /\ acc.val[results[idx].winner] < standing.val[results[idx].winner]

====
